---- MODULE Spec2Model ----
(***************************************************************************)
(* SensorScope / hello-world-pca: PCA over tabular sensor data behind two  *)
(* HTTP front ends (local Flask server, Cloud Functions handler).          *)
(*                                                                         *)
(* Python values are modelled as records:                                  *)
(*   pytype  the Python type ("list", "ndarray", "number", "str")          *)
(*   ndim    the nesting depth numpy finds (0 scalar, 1 flat, 2 matrix...) *)
(*   rows    the numeric cells, row by row (a flat list is one row)        *)
(*   gen     for generated arrays, what determines their contents:         *)
(*           <<n_samples, n_features, n_redundant, n_informative,          *)
(*             random_state, global RNG state at the first noise draw,     *)
(*             pattern flag>>; <<>> for values given cell by cell           *)
(* An exception is modelled as a result record whose field raised names    *)
(* the exception type; "none" means a normal return.                       *)
(* The numerical library (numpy, scikit-learn) is modelled by its          *)
(* documented contract: shapes, argument checks, seeding.                  *)
(***************************************************************************)
EXTENDS Integers, Sequences, FiniteSets, TLC

VARIABLES
    req,         \* the HTTP request a client sends
    local_resp,  \* the local Flask server's response to req
    cloud_resp,  \* the Cloud Functions handler's response to req
    flask_mode,  \* what request.get_json() does without a JSON content type
    rng,         \* state of numpy's global random generator (np.random)
    call,        \* arguments of the last direct call of a shared function
    result,      \* what that call returned
    checked,     \* outcome of validate_pca_results on result
    gen_log      \* the (arguments, data) of earlier generate_sample_data calls

vars == <<req, local_resp, cloud_resp, flask_mode, rng, call, result, checked, gen_log>>

----------------------------------------------------------------------------
(* Bounds of the model *)

\* rows of a matrix passed directly to the shared functions
MaxSamples == 3
\* columns of such a matrix
MaxFeatures == 2
\* n_components ranges over -1..MaxComponents
MaxComponents == 3
\* period of the modelled global random generator
RngPeriod == 3
\* rows and columns of a matrix uploaded in a request
MaxReqSamples == 2
MaxReqFeatures == 2
\* n_samples, n_features, n_redundant, n_informative of a sample-data request
MaxGenSamples == 2
MaxGenFeatures == 2
MaxRedundant == 1
\* n_informative of a generate_sample_data call ranges over 0..MaxInformative
MaxInformative == 3
\* hours and number of sensor types of a coffee shop request
MaxHours == 1
\* rows of the data sets whose analysis is formatted: more than the 5 of a sample
MaxFormatSamples == 6
MaxSensors == 4

\* the numeric cells of enumerated matrices
Cells == {0, 1}

----------------------------------------------------------------------------
(* Python / numpy helpers *)

RECURSIVE SumTo(_, _)
SumTo(f, n) == IF n = 0 THEN 0 ELSE f[n] + SumTo(f, n - 1)

Min(a, b) == IF a < b THEN a ELSE b
Max(a, b) == IF a > b THEN a ELSE b

NoGen == <<>>

\* a Python list of lists of numbers
ListOfRows(rows) == [pytype |-> "list", ndim |-> 2, rows |-> rows, gen |-> NoGen]
\* a flat Python list of numbers
FlatList(xs) == [pytype |-> "list", ndim |-> 1, rows |-> <<xs>>, gen |-> NoGen]
\* a bare number
Scalar(x) == [pytype |-> "number", ndim |-> 0, rows |-> <<<<x>>>>, gen |-> NoGen]
\* a list of matrices (three levels of nesting); rows keeps the first matrix
ListOfMatrices(rows) == [pytype |-> "list", ndim |-> 3, rows |-> rows, gen |-> NoGen]

IsGenerated(v) == v.gen # NoGen

\* Cells of uploaded data are natural numbers; three codes stand for the values
\* that are no finite float64: nan (also what float64 makes of None), inf, and
\* an integer too large for a float (such as 10 ** 400)
np_nan == -1
np_inf == -2
huge_int == -3

\* the cells of a list or an array
CellsOf(v) ==
    IF IsGenerated(v) \/ v.pytype = "str" THEN {}
    ELSE UNION {{v.rows[i][j] : j \in 1..Len(v.rows[i])} : i \in 1..Len(v.rows)}

\* np.isnan(arr).any(), np.isinf(arr).any()
HasNan(arr) == np_nan \in CellsOf(arr)
HasInf(arr) == np_inf \in CellsOf(arr)

\* a list of rows is rectangular when all rows have the length of the first
Rectangular(v) ==
    IsGenerated(v) \/ v.ndim # 2
    \/ \A i \in 1..Len(v.rows) : Len(v.rows[i]) = Len(v.rows[1])

\* ndarray.shape
Shape(v) ==
    IF v.ndim = 0 THEN <<>>
    ELSE IF v.ndim = 1 THEN <<Len(v.rows[1])>>
    ELSE IF IsGenerated(v) THEN <<v.gen[1], v.gen[2]>>
    ELSE IF v.ndim = 2 THEN <<Len(v.rows), IF Len(v.rows) = 0 THEN 0 ELSE Len(v.rows[1])>>
    ELSE <<1, Len(v.rows), IF Len(v.rows) = 0 THEN 0 ELSE Len(v.rows[1])>>

\* np.array(data, dtype=np.float64): ValueError on text and on ragged rows,
\* OverflowError on an integer that float() cannot hold
np_array(data) ==
    IF data.pytype = "str"
    THEN [raised |-> "ValueError", msg |-> "could not convert string to float", value |-> data]
    ELSE IF ~Rectangular(data)
    THEN [raised |-> "ValueError", msg |-> "inhomogeneous shape", value |-> data]
    ELSE IF huge_int \in CellsOf(data)
    THEN [raised |-> "OverflowError", msg |-> "int too large to convert to float",
          value |-> data]
    ELSE [raised |-> "none", msg |-> "", value |-> [data EXCEPT !.pytype = "ndarray"]]

\* ndarray.tolist()
tolist(arr) == [arr EXCEPT !.pytype = "list"]

\* getattr(data, 'shape', 'unknown')
ShapeAttr(data) == IF data.pytype = "ndarray" THEN Shape(data) ELSE <<>>
HasShapeAttr(data) == data.pytype = "ndarray"

\* the variance of a column with nan or inf in it is nan, which is not 0
FiniteColumn(arr, j) == \A i \in 1..Len(arr.rows) : arr.rows[i][j] \notin {np_nan, np_inf}

\* n * n * np.var(column j): zero exactly when the variance is zero
ScaledVar(arr, j) ==
    LET n == Len(arr.rows)
        s == SumTo([i \in 1..n |-> arr.rows[i][j]], n)
        q == SumTo([i \in 1..n |-> arr.rows[i][j] * arr.rows[i][j]], n)
    IN n * q - s * s

\* np.where(np.var(data, axis=0) == 0)[0]; a generated array holds draws of
\* continuous distributions, whose columns are not constant
constant_features(arr) ==
    IF IsGenerated(arr) THEN {}
    ELSE {j \in 1..Shape(arr)[2] : FiniteColumn(arr, j) /\ ScaledVar(arr, j) = 0}

----------------------------------------------------------------------------
(* pca_core.py *)

\* the except branch of process_pca_request
\* n_components given as something that is no number, such as the text "2"
text_components == -9

\* an error result that leaves out what the caller passed
pca_error_result_without_input_info(etype, msg, data, n_components, scale_features) ==
    [status |-> "error",
     error_type |-> etype,
     error_message |-> msg,
     performance |-> [execution_time_ms |-> "elapsed"]]

pca_error_result(etype, msg, data, n_components, scale_features) ==
    [status |-> "error",
     error_type |-> etype,
     error_message |-> msg,
     input_info |-> [data_type |-> data.pytype,
                     data_shape |-> ShapeAttr(data),
                     n_components_requested |-> n_components,
                     scale_features |-> scale_features],
     performance |-> [execution_time_ms |-> "elapsed"]]

\* a bug to detect: the shape written features first
input_shape_swapped(n_samples, n_features) == <<n_features, n_samples>>

\* "input_shape": [n_samples, n_features]
input_shape_of(n_samples, n_features) == <<n_samples, n_features>>

\* pca.fit_transform: the coordinates of sample i, a function of the data. They
\* are told apart by the sample and, for generated data, by the noise drawn.
projection(arr, i) ==
    IF IsGenerated(arr) THEN i + Shape(arr)[1] * (arr.gen[6] + RngPeriod * arr.gen[7])
    ELSE i

\* the result dictionary of a successful analysis; the library returns
\* n_samples x n_components transformed rows, n_components ratios and
\* n_components x n_features component vectors
\* Variance ratios are whole per cent. The ratios of an analysis are not
\* computed here: unknown_ratio stands for each of them.
unknown_ratio == -1

pca_success_result(arr, n_components, scale_features) ==
    LET n_samples == Shape(arr)[1]
        n_features == Shape(arr)[2]
    IN [status |-> "success",
        input_shape |-> input_shape_of(n_samples, n_features),
        output_shape |-> <<n_samples, n_components>>,
        explained_variance_ratio |-> [i \in 1..n_components |-> unknown_ratio],
        total_variance_explained |-> unknown_ratio,
        principal_components |->
            [i \in 1..n_components |-> [j \in 1..n_features |-> "loading"]],
        transformed_data |->
            [i \in 1..n_samples |-> [j \in 1..n_components |-> projection(arr, i)]],
        scaling_applied |-> scale_features,
        performance |-> [execution_time_ms |-> "elapsed",
                         memory_used_mb |-> "mb",
                         peak_memory_mb |-> "mb"],
        metadata |-> [n_components_requested |-> n_components,
                      n_components_actual |-> n_components,
                      scaling_parameters |-> scale_features]]

\* a bug to detect: the larger dimension taken as the limit
max_components_larger(n_samples, n_features) == Max(n_samples, n_features)

\* max_components = min(n_samples, n_features)
max_components_of(n_samples, n_features) == Min(n_samples, n_features)

\* the same request handled with the variance of the columns looked at before
\* n_components
process_pca_request_variance_first(data, n_components, scale_features) ==
    LET conv == np_array(data)
        arr == conv.value
        err(msg) == pca_error_result("ValueError", msg, arr, n_components, scale_features)
    IN IF conv.raised # "none"
       THEN pca_error_result(conv.raised, conv.msg, data, n_components, scale_features)
       ELSE IF arr.ndim # 2 THEN err("Data must be 2-dimensional")
       ELSE LET n_samples == Shape(arr)[1]
                n_features == Shape(arr)[2]
                max_components == max_components_of(n_samples, n_features)
            IN IF n_samples < 2 THEN err("Need at least 2 samples")
               ELSE IF n_features < 1 THEN err("Need at least 1 feature")
               ELSE IF constant_features(arr) # {} THEN err("zero variance")
               ELSE IF n_components = text_components
               THEN pca_error_result("TypeError", "'>' not supported between 'str' and 'int'",
                                     arr, n_components, scale_features)
               ELSE IF n_components > max_components THEN err("n_components cannot exceed")
               ELSE IF n_components < 1 THEN err("n_components must be at least 1")
               ELSE IF HasNan(arr) \/ HasInf(arr)
               THEN err("Input X contains NaN or infinity")
               ELSE pca_success_result(arr, n_components, scale_features)

process_pca_request(data, n_components, scale_features) ==
    LET conv == np_array(data)
        arr == conv.value
        err(msg) == pca_error_result("ValueError", msg, arr, n_components, scale_features)
    IN IF conv.raised # "none"
       THEN pca_error_result(conv.raised, conv.msg, data, n_components, scale_features)
       ELSE IF arr.ndim # 2 THEN err("Data must be 2-dimensional")
       ELSE LET n_samples == Shape(arr)[1]
                n_features == Shape(arr)[2]
                max_components == max_components_of(n_samples, n_features)
            IN IF n_samples < 2 THEN err("Need at least 2 samples")
               ELSE IF n_features < 1 THEN err("Need at least 1 feature")
               ELSE IF n_components = text_components
               THEN pca_error_result("TypeError", "'>' not supported between 'str' and 'int'",
                                     arr, n_components, scale_features)
               ELSE IF n_components > max_components THEN err("n_components cannot exceed")
               ELSE IF n_components < 1 THEN err("n_components must be at least 1")
               ELSE IF constant_features(arr) # {} THEN err("zero variance")
               ELSE IF HasNan(arr) \/ HasInf(arr)
               THEN err("Input X contains NaN or infinity")
               ELSE pca_success_result(arr, n_components, scale_features)

\* the dimensional checks of validate_pca_results: "True" or the ValueError raised
validate_pca_results(results) ==
    IF results.status # "success" THEN "ValueError: cannot validate failed PCA"
    ELSE LET input_shape == results.input_shape
             output_shape == results.output_shape
             expected_components == Min(input_shape[1], input_shape[2])
             components == results.principal_components
         IN IF input_shape[1] # output_shape[1] THEN "ValueError: sample count mismatch"
            ELSE IF output_shape[2] > expected_components THEN "ValueError: too many components"
            ELSE IF Len(components) # output_shape[2]
                 THEN "ValueError: wrong number of principal components"
            ELSE IF Len(components) = 0 THEN "IndexError"
            ELSE IF Len(components[1]) # input_shape[2]
                 THEN "ValueError: wrong component dimension"
            ELSE "True"

----------------------------------------------------------------------------
(* data_validation.py *)

\* np.random.normal(..., size): the global generator moves on by size draws
rng_advance(r, size) == (r + size) % RngPeriod

\* sklearn.datasets.make_classification (n_classes = 2, n_clusters_per_class = 1,
\* n_repeated = 0): its argument checks; the samples are a function of the arguments
make_classification_error(n_features, n_redundant, n_informative) ==
    IF n_informative + n_redundant > n_features
    THEN "informative, redundant and repeated features must sum to less than n_features"
    ELSE IF n_informative < 1
    THEN "n_classes * n_clusters_per_class must be <= 2 ** n_informative"
    ELSE ""

\* the sensor_configs table has 8 entries: the columns that get sensor noise
NumSensorConfigs == 8

\* the parameter adjustment of generate_sample_data
\* the adjustment without its lower limit of 1
adjusted_informative_unclamped(n_features, n_redundant, n_informative) ==
    IF n_redundant + n_informative > n_features
    THEN n_features - n_redundant
    ELSE n_informative

adjusted_informative(n_features, n_redundant, n_informative) ==
    IF n_redundant + n_informative > n_features
    THEN Max(1, n_features - n_redundant)
    ELSE n_informative

adjusted_redundant(n_features, n_redundant, n_informative) ==
    IF n_redundant + n_informative > n_features
    THEN n_features - adjusted_informative(n_features, n_redundant, n_informative)
    ELSE n_redundant

\* the generator the sensor noise is drawn from: numpy's global one
noise_source(random_state, r) == r

\* generate_sample_data with the global generator in state r: the exception or
\* the array, and the generator's state afterwards
generate_sample_data(n_samples, n_features, n_redundant, n_informative, random_state, r) ==
    LET fail(msg) == [raised |-> "ValueError", msg |-> msg, value |-> Scalar(0), rng |-> r]
        inf == adjusted_informative(n_features, n_redundant, n_informative)
        red == adjusted_redundant(n_features, n_redundant, n_informative)
        mc == make_classification_error(n_features, red, inf)
        noisy == Min(n_features, NumSensorConfigs)
    IN IF n_samples < 2 THEN fail("Need at least 2 samples")
       ELSE IF n_features < 1 THEN fail("Need at least 1 feature")
       ELSE IF mc # "" THEN fail(mc)
       ELSE [raised |-> "none", msg |-> "",
             value |-> [pytype |-> "ndarray", ndim |-> 2, rows |-> <<>>,
                        gen |-> <<n_samples, n_features, red, inf, random_state,
                                  noise_source(random_state, r), 0>>],
             rng |-> rng_advance(r, n_samples * noisy)]

\* json.loads of a str value: ndim -1 marks text that is not JSON
json_loads(data) ==
    IF data.ndim = -1
    THEN [raised |-> "ValueError", msg |-> "Invalid JSON string", value |-> data]
    ELSE [raised |-> "none", msg |-> "",
          value |-> [data EXCEPT !.pytype = IF data.ndim = 0 THEN "number" ELSE "list"]]

\* validation that lets constant columns through
validate_input_data_without_variance_check(data) ==
    LET loaded == IF data.pytype = "str" THEN json_loads(data)
                  ELSE [raised |-> "none", msg |-> "", value |-> data]
        conv == np_array(loaded.value)
        data_array == conv.value
        fail(etype, msg) == [raised |-> etype, msg |-> msg, value |-> data]
    IN IF loaded.raised # "none" THEN fail("ValueError", loaded.msg)
       ELSE IF conv.raised \in {"ValueError", "TypeError"}
       THEN fail("TypeError", "Cannot convert data to numeric array")
       ELSE IF conv.raised # "none" THEN fail(conv.raised, conv.msg)
       ELSE IF data_array.ndim = 0 THEN fail("ValueError", "Data cannot be a scalar value")
       ELSE IF data_array.ndim = 1 THEN fail("ValueError", "Data must be 2-dimensional")
       ELSE IF data_array.ndim > 2 THEN fail("ValueError", "Data must be 2-dimensional, got more")
       ELSE IF Shape(data_array)[1] < 2 THEN fail("ValueError", "Need at least 2 samples")
       ELSE IF Shape(data_array)[2] < 1 THEN fail("ValueError", "Need at least 1 feature")
       ELSE IF HasNan(data_array) THEN fail("ValueError", "Data contains NaN values")
       ELSE IF HasInf(data_array) THEN fail("ValueError", "Data contains infinite values")
       ELSE [raised |-> "none", msg |-> "", value |-> data_array]

validate_input_data(data) ==
    LET loaded == IF data.pytype = "str" THEN json_loads(data)
                  ELSE [raised |-> "none", msg |-> "", value |-> data]
        conv == np_array(loaded.value)
        data_array == conv.value
        fail(etype, msg) == [raised |-> etype, msg |-> msg, value |-> data]
    IN IF loaded.raised # "none" THEN fail("ValueError", loaded.msg)
       ELSE IF conv.raised \in {"ValueError", "TypeError"}
       THEN fail("TypeError", "Cannot convert data to numeric array")
       ELSE IF conv.raised # "none" THEN fail(conv.raised, conv.msg)
       ELSE IF data_array.ndim = 0 THEN fail("ValueError", "Data cannot be a scalar value")
       ELSE IF data_array.ndim = 1 THEN fail("ValueError", "Data must be 2-dimensional")
       ELSE IF data_array.ndim > 2 THEN fail("ValueError", "Data must be 2-dimensional, got more")
       ELSE IF Shape(data_array)[1] < 2 THEN fail("ValueError", "Need at least 2 samples")
       ELSE IF Shape(data_array)[2] < 1 THEN fail("ValueError", "Need at least 1 feature")
       ELSE IF HasNan(data_array) THEN fail("ValueError", "Data contains NaN values")
       ELSE IF HasInf(data_array) THEN fail("ValueError", "Data contains infinite values")
       ELSE IF constant_features(data_array) # {} THEN fail("ValueError", "zero variance")
       ELSE [raised |-> "none", msg |-> "", value |-> data_array]

\* Maya's full 20-sensor coffee shop scenario
DefaultSensorTypes ==
    <<"temperature", "humidity", "pressure", "vibration", "flow_rate",
      "sound_level", "light_level", "co2_level", "door_sensor", "wifi_connections",
      "equipment_temp", "steam_pressure", "water_flow", "power_consumption",
      "customer_count", "ambient_noise", "air_quality", "motion_detector",
      "refrigeration_temp", "grinder_vibration">>

\* np.sum(rush_hours): the samples of np.linspace(0, hours, n_samples) whose hour
\* of the day lies in [7, 9] or [17, 19]; sample i is at hours * i / (n_samples - 1)
rush_hour_samples(hours, n_samples) ==
    LET d == n_samples - 1
        tod(i) == (hours * i) % (24 * d)
    IN Cardinality({i \in 0..d :
           \/ (7 * d <= tod(i) /\ tod(i) <= 9 * d)
           \/ (17 * d <= tod(i) /\ tod(i) <= 19 * d)})

\* create_coffee_shop_sample; sensor_types <<"None">> stands for the argument
\* left out. The dataset's "data" is a list (data.tolist()).
\* the n_redundant and n_informative the coffee shop sample asks for
coffee_n_redundant(n_features) == Min(2, n_features \div 2)

\* every sensor counted as informative
coffee_n_informative_all(n_features) == Max(1, n_features)

coffee_n_informative(n_features) == Max(1, n_features - n_features \div 2)

create_coffee_shop_sample(location, hours, sensor_types_arg, r) ==
    LET sensor_types == IF sensor_types_arg = <<"None">> THEN DefaultSensorTypes
                        ELSE sensor_types_arg
        n_samples == hours * 4
        n_features == Len(sensor_types)
        g == generate_sample_data(n_samples, n_features,
                                  coffee_n_redundant(n_features),
                                  coffee_n_informative(n_features),
                                  42, r)
        vibration == Cardinality({i \in 1..n_features : sensor_types[i] = "vibration"})
        data == [g.value EXCEPT !.gen[7] = 1]
    IN IF g.raised # "none"
       THEN [raised |-> g.raised, msg |-> g.msg, data |-> g.value,
             business_context |-> [purpose |-> "none"], rng |-> g.rng]
       ELSE [raised |-> "none", msg |-> "",
             data |-> tolist(data),
             business_context |->
                 [purpose |-> "Sensor redundancy analysis for cost optimization",
                  cost_per_sensor_annual |-> 250,
                  potential_savings |-> n_features * 75],
             rng |-> rng_advance(g.rng, vibration * rush_hour_samples(hours, n_samples))]

----------------------------------------------------------------------------
(* response_formatter.py *)

\* dict.get(key, default)
Get(d, key, default) == IF key \in DOMAIN d THEN d[key] ELSE default

\* the error messages that contain the words _generate_error_guidance looks for
Mentions2Dimensional == {"Data must be 2-dimensional", "Data must be 2-dimensional, got more"}
MentionsNComponents == {"n_components cannot exceed", "n_components must be at least 1"}
MentionsZeroVariance == {"zero variance"}

_generate_error_guidance(error_results) ==
    LET error_type == Get(error_results, "error_type", "Unknown")
        error_message == Get(error_results, "error_message", "")
        common_solutions ==
            IF error_type = "ValueError"
            THEN IF error_message \in Mentions2Dimensional THEN "reshape the data"
                 ELSE IF error_message \in MentionsNComponents THEN "reduce n_components"
                 ELSE IF error_message \in MentionsZeroVariance THEN "remove constant features"
                 ELSE "none"
            ELSE IF error_type = "TypeError" THEN "use numeric values"
            ELSE "none"
    IN [common_solutions |-> common_solutions,
        next_steps |-> "general guidance",
        documentation |-> "See project README.md for detailed troubleshooting"]

\* f"{x:.1%}" of the ratio a / b, in tenths of a percent
PerMille(a, b) == (2000 * a + b) \div (2 * b)

\* Amounts of money are counted in half dollars, which floating point holds
\* exactly: Dollars(250) is the 250 of the sample business context.
Dollars(n) == 2 * n

\* f"${x:,.0f}": the amount in whole dollars, a half rounded to the even side
format_dollars(x) ==
    LET unit == Dollars(1)
        q == x \div unit
        twice_rest == 2 * (x % unit)
    IN IF twice_rest < unit THEN q
       ELSE IF twice_rest > unit THEN q + 1
       ELSE IF q % 2 = 0 THEN q ELSE q + 1

\* a bug to detect: the subtraction the wrong way round
potential_savings_reversed(current_cost, optimized_cost) == optimized_cost - current_cost

\* potential_savings = current_cost - optimized_cost
potential_savings_of(current_cost, optimized_cost) == current_cost - optimized_cost

\* the finding and the recommendation of the tier of total variance explained
tier_finding(total_variance) ==
    IF total_variance >= 90 THEN "Excellent dimensionality reduction"
    ELSE IF total_variance >= 75 THEN "Good dimensionality reduction"
    ELSE IF total_variance >= 60 THEN "Moderate dimensionality reduction"
    ELSE "Limited dimensionality reduction"

tier_recommendation(total_variance) ==
    IF total_variance >= 90 THEN "Strong candidate for sensor optimization"
    ELSE IF total_variance >= 75 THEN "Moderate sensor optimization opportunity"
    ELSE IF total_variance >= 60 THEN "Limited sensor optimization"
    ELSE "minimal optimization opportunity"

\* the findings on the first and the second component
component_findings(variance_ratios) ==
    LET first == IF Len(variance_ratios) >= 1
                 THEN IF variance_ratios[1] > 60
                      THEN <<"One dominant operational factor">>
                      ELSE IF variance_ratios[1] > 40
                      THEN <<"Primary operational factor">>
                      ELSE <<>>
                 ELSE <<>>
        second == IF Len(variance_ratios) >= 2
                  THEN IF variance_ratios[2] > 20
                       THEN <<"Secondary factor">> ELSE <<>>
                  ELSE <<>>
    IN first \o second

\* key_findings and the first recommendation; for ratios that are not computed
\* the findings are named, not spelled out
key_findings_of(pca_results) ==
    IF pca_results.total_variance_explained = unknown_ratio
    THEN <<"variance tier finding">>
    ELSE <<tier_finding(pca_results.total_variance_explained)>>
         \o component_findings(pca_results.explained_variance_ratio)

first_recommendations(pca_results) ==
    IF pca_results.total_variance_explained = unknown_ratio
    THEN <<"variance tier recommendation">>
    ELSE <<tier_recommendation(pca_results.total_variance_explained)>>

\* _generate_business_insights: the exception raised, or the insights
_generate_business_insights(pca_results, context) ==
    LET original_dims == pca_results.input_shape[2]
        reduced_dims == pca_results.output_shape[2]
        has_cost == "cost_per_sensor" \in DOMAIN context
        cost_per_sensor == context["cost_per_sensor"]
        current_cost == original_dims * cost_per_sensor
        optimized_cost == reduced_dims * cost_per_sensor
        potential_savings == potential_savings_of(current_cost, optimized_cost)
        base == [dimensionality_reduction |->
                     [summary |-> <<original_dims, reduced_dims>>,
                      information_preserved |-> pca_results.total_variance_explained,
                      potential_sensor_reduction |->
                          PerMille(original_dims - reduced_dims, original_dims)],
                 key_findings |-> key_findings_of(pca_results),
                 recommendations |-> first_recommendations(pca_results),
                 cost_impact |-> <<>>]
    IN IF ~has_cost THEN [raised |-> "none", value |-> base]
       ELSE IF current_cost = 0 THEN [raised |-> "ZeroDivisionError", value |-> base]
       ELSE [raised |-> "none",
             value |-> [base EXCEPT
                 !.cost_impact = [current_annual_cost |-> format_dollars(current_cost),
                                  optimized_annual_cost |-> format_dollars(optimized_cost),
                                  potential_annual_savings |-> format_dollars(potential_savings),
                                  savings_percentage |->
                                      PerMille(potential_savings, current_cost)],
                 !.recommendations =
                     IF potential_savings > 0
                     THEN Append(@, "Potential cost savings")
                     ELSE @]]

\* a bug to detect: the version left out of the base response
BaseResponse_without_version(platform) ==
    [timestamp |-> "now", platform |-> platform, service |-> "serverless-pca"]

BaseResponse(platform) ==
    [timestamp |-> "now", platform |-> platform,
     service |-> "serverless-pca", version |-> "1.0.0"]

\* rows kept as the sample of the transformed data
SampleRows == 5

\* a bug to detect: the sample taken from 5 rows on
transformed_data_part_from_5(include_raw_data, transformed_data) ==
    IF include_raw_data THEN [transformed_data |-> transformed_data]
    ELSE IF Len(transformed_data) >= SampleRows
    THEN [sample_transformed_data |->
             [first_5_samples |-> SubSeq(transformed_data, 1, SampleRows),
              total_samples |-> Len(transformed_data)]]
    ELSE [transformed_data |-> transformed_data]

\* "Include transformed data if requested": all rows, or the first 5 of more
transformed_data_part(include_raw_data, transformed_data) ==
    IF include_raw_data THEN [transformed_data |-> transformed_data]
    ELSE IF Len(transformed_data) > SampleRows
    THEN [sample_transformed_data |->
             [first_5_samples |-> SubSeq(transformed_data, 1, SampleRows),
              total_samples |-> Len(transformed_data)]]
    ELSE [transformed_data |-> transformed_data]

\* format_response: the exception raised, or the response dictionary
format_response(pca_results, platform, include_raw_data, business_context) ==
    IF pca_results.status = "success"
    THEN LET insights == _generate_business_insights(pca_results, business_context)
             transformed_data == pca_results.transformed_data
             analysis ==
                 [input_dimensions |-> pca_results.input_shape,
                  output_dimensions |-> pca_results.output_shape,
                  variance_analysis |->
                      [explained_variance_ratio |-> pca_results.explained_variance_ratio,
                       total_variance_explained |-> pca_results.total_variance_explained],
                  principal_components |-> pca_results.principal_components,
                  configuration |->
                      [scaling_applied |-> pca_results.scaling_applied,
                       n_components |-> pca_results.metadata.n_components_requested]]
             data_part == transformed_data_part(include_raw_data, transformed_data)
         IN IF insights.raised # "none"
            THEN [raised |-> insights.raised, body |-> BaseResponse(platform)]
            ELSE [raised |-> "none",
                  body |-> BaseResponse(platform) @@
                      [status |-> "success",
                       analysis |-> analysis @@ data_part,
                       performance |-> pca_results.performance,
                       business_insights |-> insights.value]]
    ELSE [raised |-> "none",
          body |-> BaseResponse(platform) @@
              [status |-> "error",
               error |-> [type |-> pca_results.error_type,
                          message |-> pca_results.error_message,
                          input_info |-> Get(pca_results, "input_info", <<>>),
                          timestamp |-> "now"],
               performance |-> Get(pca_results, "performance", <<>>),
               troubleshooting |-> _generate_error_guidance(pca_results)]]

format_health_response(platform, additional_info) ==
    [status |-> "healthy", timestamp |-> "now", platform |-> platform,
     service |-> "serverless-pca", version |-> "1.0.0",
     platform_info |-> additional_info]

----------------------------------------------------------------------------
(* HTTP requests *)

\* A request: method, whether its Content-Type is application/json, what its
\* body text is ("object": a JSON object, "invalid": not JSON, "null": the JSON
\* null, "array": a non-empty JSON array) and the object's fields.
EmptyDict == [k \in {} |-> TRUE]
NoSensorTypes == <<"None">>

\* Flask's request.get_json(): without a JSON content type it returns None
\* (Flask before 2.1) or raises UnsupportedMediaType (Flask 2.1 and later), which
\* flask_mode chooses; on a JSON content type with a body that is not JSON it
\* raises BadRequest.
FlaskModes == {"returns_none", "raises"}

flask_get_json(request, mode) ==
    IF ~request.ctype_json
    THEN IF mode = "returns_none" THEN [raised |-> "none", kind |-> "null"]
         ELSE [raised |-> "UnsupportedMediaType", kind |-> "null"]
    ELSE IF request.payload = "invalid" THEN [raised |-> "BadRequest", kind |-> "null"]
    ELSE [raised |-> "none", kind |-> request.payload]

----------------------------------------------------------------------------
(* local/app.py *)

\* a bug to detect: the formatted error returned without its status
http_status_always_ok(pca_results) == 200

\* "Return appropriate HTTP status", the same in both front ends
http_status(pca_results) == IF pca_results.status = "success" THEN 200 ELSE 400

\* a bug to detect: the except branch returns its body without ", 500"
local_unexpected_error_default_status(etype, msg, r, calls) ==
    [code |-> 200,
     body |-> [status |-> "error",
               error |-> [type |-> etype, message |-> msg, platform |-> "local-flask"],
               help |-> "Check server logs for detailed error information"],
     rng |-> r, pca_calls |-> calls]

\* the except branch of pca_analysis
local_unexpected_error(etype, msg, r, calls) ==
    [code |-> 500,
     body |-> [status |-> "error",
               error |-> [type |-> etype, message |-> msg, platform |-> "local-flask"],
               help |-> "Check server logs for detailed error information"],
     rng |-> r, pca_calls |-> calls]

\* pca_analysis from "Process PCA request" on: data.shape is read for the log line,
\* then process_pca_request and format_response run
local_process(request_data, data, business_context, r) ==
    IF ~HasShapeAttr(data)
    THEN local_unexpected_error("AttributeError", "'list' object has no attribute 'shape'", r, 0)
    ELSE LET pca_results == process_pca_request(data,
                                Get(request_data, "n_components", 2),
                                Get(request_data, "scale_features", TRUE))
             formatted == format_response(pca_results, "local-flask",
                                Get(request_data, "include_raw_data", FALSE),
                                business_context)
         IN IF formatted.raised # "none"
            THEN local_unexpected_error(formatted.raised, "", r, 1)
            ELSE [code |-> http_status(pca_results),
                  body |-> formatted.body, rng |-> r, pca_calls |-> 1]

pca_analysis(request, mode, r) ==
    LET parsed == flask_get_json(request, mode)
        request_data == request.body
    IN IF parsed.raised # "none" THEN local_unexpected_error(parsed.raised, "", r, 0)
       ELSE IF parsed.kind = "null"
       THEN [code |-> 400,
             body |-> [status |-> "error",
                       error |-> "Invalid JSON or missing Content-Type: application/json header",
                       example |-> [use_sample_data |-> TRUE, n_components |-> 2]],
             rng |-> r, pca_calls |-> 0]
       ELSE IF parsed.kind = "array"
       THEN local_unexpected_error("AttributeError", "'list' object has no attribute 'get'", r, 0)
       ELSE IF Get(request_data, "use_sample_data", FALSE)
       THEN IF Get(request_data, "coffee_shop_sample", FALSE)
            THEN LET coffee_data == create_coffee_shop_sample(
                                        Get(request_data, "location", "downtown"),
                                        Get(request_data, "hours", 24),
                                        Get(request_data, "sensor_types", NoSensorTypes), r)
                 IN IF coffee_data.raised # "none"
                    THEN local_unexpected_error(coffee_data.raised, coffee_data.msg,
                                                coffee_data.rng, 0)
                    ELSE local_process(request_data, coffee_data.data,
                                       coffee_data.business_context, coffee_data.rng)
            ELSE LET g == generate_sample_data(
                              Get(request_data, "n_samples", 100),
                              Get(request_data, "n_features", 5),
                              Get(request_data, "n_redundant", 2),
                              Get(request_data, "n_informative", 3),
                              Get(request_data, "random_state", 42), r)
                 IN IF g.raised # "none"
                    THEN local_unexpected_error(g.raised, g.msg, g.rng, 0)
                    ELSE local_process(request_data, g.value,
                                       [cost_per_sensor |-> Dollars(250),
                                        analysis_type |-> "sensor_redundancy"], g.rng)
       ELSE IF "data" \notin DOMAIN request_data
       THEN [code |-> 400,
             body |-> [status |-> "error",
                       error |-> "Missing 'data' field in request",
                       help |-> "Either provide 'data' array or set 'use_sample_data': true"],
             rng |-> r, pca_calls |-> 0]
       ELSE LET v == validate_input_data(request_data["data"])
            IN IF v.raised # "none" THEN local_unexpected_error(v.raised, v.msg, r, 0)
               ELSE local_process(request_data, v.value,
                                  Get(request_data, "business_context", EmptyDict), r)

----------------------------------------------------------------------------
(* gcp/main.py *)

CorsPreflightHeaders ==
    [Access_Control_Allow_Origin |-> "*",
     Access_Control_Allow_Methods |-> "GET, POST",
     Access_Control_Allow_Headers |-> "Content-Type",
     Access_Control_Max_Age |-> "3600"]

CloudHeaders ==
    [Access_Control_Allow_Origin |-> "*", Content_Type |-> "application/json"]

\* a bug to detect: the response sent without its content type
cloud_response_without_content_type(code, body, r, calls) ==
    [code |-> code, body |-> body, headers |-> [Access_Control_Allow_Origin |-> "*"],
     rng |-> r, pca_calls |-> calls]

cloud_response(code, body, r, calls) ==
    [code |-> code, body |-> body, headers |-> CloudHeaders, rng |-> r, pca_calls |-> calls]

\* the outer except branch of sensorscope_pca
cloud_unexpected_error(etype, msg, r, calls) ==
    cloud_response(500,
        [status |-> "error",
         error |-> [type |-> etype, message |-> msg, platform |-> "gcp-cloud-functions"],
         help |-> "Check Cloud Functions logs for detailed error information"],
        r, calls)

\* a bug to detect: the self-test asks for more components than it has features
health_self_test_four_components(platform, r) ==
    LET g == generate_sample_data(5, 3, 2, 3, 42, r)
        test_result == process_pca_request(g.value, 4, TRUE)
    IN IF g.raised # "none"
       THEN [code |-> 503,
             body |-> [status |-> "unhealthy", error |-> g.msg, platform |-> platform],
             rng |-> g.rng, pca_calls |-> 0]
       ELSE [code |-> 200,
             body |-> format_health_response(platform,
                 [core_functionality |->
                      IF test_result.status = "success" THEN "operational" ELSE "degraded",
                  test_execution_time_ms |-> "elapsed"]),
             rng |-> g.rng, pca_calls |-> 1]

\* the health check both front ends run: a 5 x 3 sample, two components
health_self_test(platform, r) ==
    LET g == generate_sample_data(5, 3, 2, 3, 42, r)
        test_result == process_pca_request(g.value, 2, TRUE)
    IN IF g.raised # "none"
       THEN [code |-> 503,
             body |-> [status |-> "unhealthy", error |-> g.msg, platform |-> platform],
             rng |-> g.rng, pca_calls |-> 0]
       ELSE [code |-> 200,
             body |-> format_health_response(platform,
                 [core_functionality |->
                      IF test_result.status = "success" THEN "operational" ELSE "degraded",
                  test_execution_time_ms |-> "elapsed"]),
             rng |-> g.rng, pca_calls |-> 1]

\* "Parse request data" of sensorscope_pca: request.get_json() on a JSON content
\* type, json.loads of the raw body otherwise
cloud_parse(request) ==
    IF request.ctype_json
    THEN IF request.payload = "invalid" THEN [raised |-> "BadRequest", kind |-> "null"]
         ELSE [raised |-> "none", kind |-> request.payload]
    ELSE IF request.payload = "invalid" THEN [raised |-> "JSONDecodeError", kind |-> "null"]
         ELSE [raised |-> "none", kind |-> request.payload]

\* sensorscope_pca from "Process PCA request" on
cloud_process(request_data, data, business_context, r) ==
    IF ~HasShapeAttr(data)
    THEN cloud_unexpected_error("AttributeError", "'list' object has no attribute 'shape'", r, 0)
    ELSE LET pca_results == process_pca_request(data,
                                Get(request_data, "n_components", 5),
                                Get(request_data, "scale_features", TRUE))
             formatted == format_response(pca_results, "gcp-cloud-functions",
                                Get(request_data, "include_raw_data", FALSE),
                                business_context)
         IN IF formatted.raised # "none"
            THEN cloud_unexpected_error(formatted.raised, "", r, 1)
            ELSE cloud_response(http_status(pca_results), formatted.body, r, 1)

\* a bug to detect: the bucket alone taken as naming a Cloud Storage object
uses_gcs_bucket_only(request_data) == Get(request_data, "gcs_bucket", "") # ""

\* whether the request names a Cloud Storage object
uses_gcs(request_data) ==
    Get(request_data, "gcs_bucket", "") # "" /\ Get(request_data, "gcs_file_path", "") # ""

\* a bug to detect: a failed load falls back to the data of the request body
gcs_load_failed_falls_back(request_data, msg, r) ==
    IF "data" \in DOMAIN request_data
    THEN cloud_process(request_data, np_array(request_data["data"]).value, EmptyDict, r)
    ELSE cloud_response(400,
             [status |-> "error",
              error |-> [type |-> "GCSLoadError", message |-> msg,
                         platform |-> "gcp-cloud-functions"],
              help |-> "Ensure bucket exists, file is accessible"], r, 0)

\* the except branch around load_dataset_from_gcs
gcs_load_failed(request_data, msg, r) ==
    cloud_response(400,
        [status |-> "error",
         error |-> [type |-> "GCSLoadError", message |-> msg,
                    platform |-> "gcp-cloud-functions"],
         help |-> "Ensure bucket exists, file is accessible"], r, 0)

\* sensorscope_pca; gcs is what load_dataset_from_gcs does for the named object:
\* it raises, or returns the validated array with its business context
sensorscope_pca(request, r, gcs) ==
    IF request.method = "OPTIONS"
    THEN [code |-> 204, body |-> EmptyDict, headers |-> CorsPreflightHeaders,
          rng |-> r, pca_calls |-> 0]
    ELSE IF request.method = "GET"
    THEN LET h == health_self_test("gcp-cloud-functions", r)
         IN cloud_response(h.code, h.body, h.rng, h.pca_calls)
    ELSE IF request.method # "POST"
    THEN cloud_response(405,
             [status |-> "error",
              error |-> "Method not allowed. Use POST for PCA analysis or GET for health check.",
              platform |-> "gcp-cloud-functions"], r, 0)
    ELSE LET parsed == cloud_parse(request)
             request_data == request.body
         IN IF parsed.raised = "JSONDecodeError"
            THEN cloud_response(400,
                     [status |-> "error", error |-> "Invalid JSON format",
                      help |-> "Send Content-Type: application/json with valid JSON body",
                      platform |-> "gcp-cloud-functions"], r, 0)
            ELSE IF parsed.raised # "none"
            THEN cloud_unexpected_error(parsed.raised, "", r, 0)
            ELSE IF parsed.kind = "null" \/ (parsed.kind = "object" /\ DOMAIN request_data = {})
            THEN cloud_response(400,
                     [status |-> "error", error |-> "Empty request body",
                      example |-> [use_sample_data |-> TRUE, n_components |-> 5,
                                   n_features |-> 20],
                      platform |-> "gcp-cloud-functions"], r, 0)
            ELSE IF parsed.kind = "array"
            THEN cloud_unexpected_error("AttributeError",
                                        "'list' object has no attribute 'get'", r, 0)
            ELSE IF uses_gcs(request_data)
            THEN IF gcs.raised # "none"
                 THEN gcs_load_failed(request_data, gcs.msg, r)
                 ELSE cloud_process(request_data, gcs.data, gcs.business_context, r)
            ELSE IF Get(request_data, "use_sample_data", FALSE)
            THEN IF Get(request_data, "coffee_shop_sample", FALSE)
                 THEN LET coffee_data == create_coffee_shop_sample(
                                             Get(request_data, "location", "downtown"),
                                             Get(request_data, "hours", 24),
                                             Get(request_data, "sensor_types", NoSensorTypes), r)
                          conv == np_array(coffee_data.data)
                      IN IF coffee_data.raised # "none"
                         THEN cloud_unexpected_error(coffee_data.raised, coffee_data.msg,
                                                     coffee_data.rng, 0)
                         ELSE cloud_process(request_data, conv.value,
                                            coffee_data.business_context, coffee_data.rng)
                 ELSE LET g == generate_sample_data(
                                   Get(request_data, "n_samples", 100),
                                   Get(request_data, "n_features", 20),
                                   Get(request_data, "n_redundant", 8),
                                   Get(request_data, "n_informative", 12),
                                   Get(request_data, "random_state", 42), r)
                      IN IF g.raised # "none"
                         THEN cloud_unexpected_error(g.raised, g.msg, g.rng, 0)
                         ELSE cloud_process(request_data, g.value,
                                            [cost_per_sensor |-> Dollars(250),
                                             analysis_type |-> "sensor_redundancy"], g.rng)
            ELSE IF "data" \notin DOMAIN request_data
            THEN cloud_response(400,
                     [status |-> "error", error |-> "Missing 'data' field in request",
                      help |-> "Either provide 'data' array or set 'use_sample_data': true",
                      platform |-> "gcp-cloud-functions"], r, 0)
            ELSE LET v == validate_input_data(request_data["data"])
                 IN IF v.raised # "none"
                    THEN cloud_unexpected_error(v.raised, v.msg, r, 0)
                    ELSE cloud_process(request_data, v.value,
                                       Get(request_data, "business_context", EmptyDict), r)

----------------------------------------------------------------------------
(* The inputs *)

Matrices(max_samples, max_features) ==
    UNION {[1..n -> [1..f -> Cells]] : n \in 1..max_samples, f \in 0..max_features}

\* values that are no rectangular matrix of numbers: a flat list, a number, a
\* list of matrices, ragged rows, text that is not JSON
OddData ==
    {FlatList(<<1, 2, 3>>), FlatList(<<>>), Scalar(7),
     ListOfMatrices(<<<<0, 1>>, <<1, 0>>>>),
     ListOfRows(<<<<0, 1>>, <<1>>>>),
     [pytype |-> "str", ndim |-> -1, rows |-> <<>>, gen |-> NoGen]}

\* data with a cell that is no finite float64: alone, in too few rows, next to
\* a constant column, and two kinds together
SpecialData ==
    {ListOfRows(<<<<0, c>>, <<1, 0>>>>) : c \in {np_nan, np_inf, huge_int}}
    \cup {ListOfRows(<<<<np_nan, 0>>>>), ListOfRows(<<<<1, np_nan>>, <<1, 0>>>>),
          ListOfRows(<<<<1, np_inf>>, <<1, 0>>>>), ListOfRows(<<<<np_nan, np_inf>>, <<0, 1>>>>),
          FlatList(<<0, np_nan>>)}

CoreData ==
    {ListOfRows(m) : m \in Matrices(MaxSamples, MaxFeatures)} \cup OddData \cup SpecialData

\* uploaded matrices: each column is constant or alternates 1, 0, 1, ...
ColumnMatrices(max_samples, max_features) ==
    {[i \in 1..n |-> [j \in 1..f |-> IF j \in varying THEN i % 2 ELSE 0]] :
        n \in 1..max_samples, f \in 0..max_features, varying \in SUBSET (1..max_features)}

RequestData ==
    {ListOfRows(m) : m \in ColumnMatrices(MaxReqSamples, MaxReqFeatures)} \cup OddData

\* an optional field of a JSON object: left out, or one of the values
Optional(key, values) == {EmptyDict} \cup {key :> v : v \in values}

ComponentChoices == Optional("n_components", 0..MaxComponents)

\* {"data": ..., "n_components": ...}
UploadBodies ==
    {[data |-> d] @@ c : d \in RequestData, c \in ComponentChoices}

\* costs per sensor: $250, nothing, half a dollar, a dollar and a half
SensorCosts == {Dollars(250), 0, 1, 3}

\* uploads with a business context and the raw-data switch
ContextBodies ==
    {[data |-> ListOfRows(<<<<0, 1>>, <<1, 0>>>>), n_components |-> k] @@ b @@ i :
        k \in {1, 2},
        b \in Optional("business_context",
                       {EmptyDict} \cup {[cost_per_sensor |-> c] : c \in SensorCosts}),
        i \in Optional("include_raw_data", {TRUE})}

\* {"use_sample_data": true, ...}; use_sample_data false falls through to "data"
SampleBodies ==
    {[use_sample_data |-> TRUE] @@ n @@ f @@ red @@ inf @@ c :
        n \in Optional("n_samples", 1..MaxGenSamples),
        f \in Optional("n_features", 0..MaxGenFeatures),
        red \in Optional("n_redundant", 0..MaxRedundant),
        inf \in Optional("n_informative", 0..MaxRedundant),
        c \in ComponentChoices}

SensorLists == {SubSeq(DefaultSensorTypes, 1, k) : k \in 0..MaxSensors}

\* {"use_sample_data": true, "coffee_shop_sample": true, ...}
CoffeeBodies ==
    {[use_sample_data |-> TRUE, coffee_shop_sample |-> TRUE] @@ h @@ t @@ c :
        h \in Optional("hours", 0..MaxHours),
        t \in Optional("sensor_types", SensorLists),
        c \in ComponentChoices}

\* neither data nor sample data
BareBodies ==
    {EmptyDict, [n_components |-> 2], [use_sample_data |-> FALSE],
     [use_sample_data |-> FALSE, n_components |-> 1]}

\* a Cloud Storage object named, with or without other fields
GcsBodies ==
    {[gcs_bucket |-> "bucket", gcs_file_path |-> "readings.csv"] @@ c @@ d :
        c \in Optional("n_components", {1}),
        d \in Optional("data", {ListOfRows(<<<<0, 1>>, <<1, 0>>>>)})}
    \cup {[gcs_bucket |-> "bucket", n_components |-> 1]}

\* sample data that cannot be generated asked for, and data uploaded as well
MixedBodies ==
    {[use_sample_data |-> TRUE, n_samples |-> 1,
      data |-> ListOfRows(<<<<0, 1>>, <<1, 0>>>>), n_components |-> 1]}

Bodies == UploadBodies \cup ContextBodies \cup SampleBodies \cup CoffeeBodies
          \cup BareBodies \cup GcsBodies \cup MixedBodies

Request(method, ctype_json, payload, body) ==
    [method |-> method, ctype_json |-> ctype_json, payload |-> payload, body |-> body]

Requests ==
    {Request("POST", TRUE, "object", b) : b \in Bodies}
    \cup {Request("POST", FALSE, "object", b) :
             b \in {EmptyDict, [use_sample_data |-> TRUE],
                    [data |-> ListOfRows(<<<<0, 1>>, <<1, 0>>>>), n_components |-> 1]}}
    \cup {Request("POST", j, p, EmptyDict) :
             j \in BOOLEAN, p \in {"invalid", "null", "array"}}
    \cup {Request(m, TRUE, "object", EmptyDict) : m \in {"GET", "OPTIONS", "PUT"}}

\* what load_dataset_from_gcs can do: fail, or return the validated array of
\* the stored file
GcsOutcomes ==
    {[raised |-> "ValueError", msg |-> "Error loading dataset",
      data |-> Scalar(0), business_context |-> EmptyDict],
     [raised |-> "none", msg |-> "",
      data |-> np_array(ListOfRows(<<<<0, 1>>, <<1, 0>>, <<1, 1>>>>)).value,
      business_context |-> EmptyDict]}

----------------------------------------------------------------------------
(* The HTTP front ends *)

Procs == {"local", "cloud"}
NoRequest == [method |-> "none"]
NoResponse == [code |-> 0]
NoCall == [fn |-> "none"]
NoResult == [status |-> "none"]

\* A server process starts with no request in flight and its random stream at
\* the start; rng counts the draws taken from it, modulo RngPeriod.
Init ==
    /\ req = NoRequest
    /\ local_resp = NoResponse
    /\ cloud_resp = NoResponse
    /\ flask_mode \in FlaskModes
    /\ rng = [p \in Procs |-> 0]
    /\ call = NoCall
    /\ result = NoResult
    /\ checked = "not run"
    /\ gen_log = <<>>

\* a client sends a request (the same one to either deployment)
ClientSend ==
    /\ req = NoRequest
    /\ req' \in Requests
    /\ UNCHANGED <<local_resp, cloud_resp, flask_mode, rng, call, result, checked, gen_log>>

\* POST /pca on the local server
LocalPcaAnalysis ==
    /\ req.method = "POST"
    /\ local_resp = NoResponse
    /\ LET out == pca_analysis(req, flask_mode, rng["local"])
       IN /\ local_resp' = [code |-> out.code, body |-> out.body, pca_calls |-> out.pca_calls]
          /\ rng' = [rng EXCEPT !["local"] = out.rng]
    /\ UNCHANGED <<req, cloud_resp, flask_mode, call, result, checked, gen_log>>

\* GET /health on the local server
LocalHealthCheck ==
    /\ req.method = "GET"
    /\ local_resp = NoResponse
    /\ LET out == health_self_test("local-flask", rng["local"])
       IN /\ local_resp' = [code |-> out.code, body |-> out.body, pca_calls |-> out.pca_calls]
          /\ rng' = [rng EXCEPT !["local"] = out.rng]
    /\ UNCHANGED <<req, cloud_resp, flask_mode, call, result, checked, gen_log>>

\* the Cloud Functions entry point
SensorscopePca ==
    /\ req.method # "none"
    /\ cloud_resp = NoResponse
    /\ \E gcs \in GcsOutcomes :
          LET out == sensorscope_pca(req, rng["cloud"], gcs)
          IN /\ cloud_resp' = [code |-> out.code, body |-> out.body,
                               headers |-> out.headers, pca_calls |-> out.pca_calls]
             /\ rng' = [rng EXCEPT !["cloud"] = out.rng]
    /\ UNCHANGED <<req, local_resp, flask_mode, call, result, checked, gen_log>>

\* the client has its answers and the exchange is over
Complete ==
    /\ local_resp # NoResponse \/ cloud_resp # NoResponse
    /\ req' = NoRequest
    /\ local_resp' = NoResponse
    /\ cloud_resp' = NoResponse
    /\ UNCHANGED <<flask_mode, rng, call, result, checked, gen_log>>

Next == ClientSend \/ LocalPcaAnalysis \/ LocalHealthCheck \/ SensorscopePca \/ Complete

Spec == Init /\ [][Next]_vars

----------------------------------------------------------------------------
(* The shared functions called directly *)

InitCore ==
    /\ req = NoRequest
    /\ local_resp = NoResponse
    /\ cloud_resp = NoResponse
    /\ flask_mode = "returns_none"
    /\ rng = [p \in Procs |-> 0]
    /\ call = NoCall
    /\ result = NoResult
    /\ checked = "not run"
    /\ gen_log = <<>>

\* the numbers of components asked for, and one value that is no number
ComponentCounts == (-1)..MaxComponents \cup {text_components}

CallProcessPcaRequest ==
    /\ call = NoCall
    /\ \E data \in CoreData, n_components \in ComponentCounts, scale_features \in BOOLEAN :
        /\ call' = [fn |-> "process_pca_request", data |-> data,
                    n_components |-> n_components, scale_features |-> scale_features]
        /\ result' = process_pca_request(data, n_components, scale_features)
        /\ checked' = "not run"
        /\ UNCHANGED <<req, local_resp, cloud_resp, flask_mode, rng, gen_log>>

CallValidatePcaResults ==
    /\ call.fn = "process_pca_request"
    /\ checked = "not run"
    /\ checked' = validate_pca_results(result)
    /\ UNCHANGED <<req, local_resp, cloud_resp, flask_mode, rng, call, result, gen_log>>

\* the caller is done with the result
ReturnToCaller ==
    /\ call # NoCall
    /\ call' = NoCall
    /\ result' = NoResult
    /\ checked' = "not run"
    /\ UNCHANGED <<req, local_resp, cloud_resp, flask_mode, rng, gen_log>>

NextCore == CallProcessPcaRequest \/ CallValidatePcaResults \/ ReturnToCaller

SpecCore == InitCore /\ [][NextCore]_vars

----------------------------------------------------------------------------
(* The sample generators called directly, in one process *)

\* the random_state values tried
Seeds == {7, 42}

GenArgs ==
    [n_samples : 1..MaxGenSamples, n_features : 0..MaxGenFeatures,
     n_redundant : 0..MaxRedundant, n_informative : 0..MaxInformative,
     random_state : Seeds]

\* gen_log keeps the first successful call, to compare later calls with
Logged(log, entry) == IF log = <<>> THEN <<entry>> ELSE log

CallGenerateSampleData ==
    /\ call = NoCall
    /\ \E a \in GenArgs :
        LET g == generate_sample_data(a.n_samples, a.n_features, a.n_redundant,
                                      a.n_informative, a.random_state, rng["local"])
        IN /\ call' = [fn |-> "generate_sample_data", args |-> a]
           /\ result' = [status |-> g.raised, data |-> g.value, error_message |-> g.msg]
           /\ rng' = [rng EXCEPT !["local"] = g.rng]
           /\ gen_log' = IF g.raised = "none"
                         THEN Logged(gen_log, [args |-> a, data |-> g.value])
                         ELSE gen_log
           /\ UNCHANGED <<req, local_resp, cloud_resp, flask_mode, checked>>

CallCreateCoffeeShopSample ==
    /\ call = NoCall
    /\ \E hours \in 0..MaxHours, sensor_types \in SensorLists \cup {NoSensorTypes} :
        LET c == create_coffee_shop_sample("downtown", hours, sensor_types, rng["local"])
        IN /\ call' = [fn |-> "create_coffee_shop_sample", hours |-> hours,
                       sensor_types |-> sensor_types]
           /\ result' = [status |-> c.raised, data |-> c.data]
           /\ rng' = [rng EXCEPT !["local"] = c.rng]
           /\ UNCHANGED <<req, local_resp, cloud_resp, flask_mode, checked, gen_log>>

NextGen == CallGenerateSampleData \/ CallCreateCoffeeShopSample \/ ReturnToCaller

SpecGen == InitCore /\ [][NextGen]_vars

----------------------------------------------------------------------------
(* Properties *)

\* the request is a POST whose body is a JSON object sent as application/json
JsonPost == req.method = "POST" /\ req.ctype_json /\ req.payload = "object"

HasField(key) == key \in DOMAIN req.body
WantsSampleData == HasField("use_sample_data") /\ req.body["use_sample_data"]
WantsCoffeeShop == HasField("coffee_shop_sample") /\ req.body["coffee_shop_sample"]
NamesGcsObject == HasField("gcs_bucket") /\ HasField("gcs_file_path")

\* the request uploads its data to the local server, or to the cloud handler
UploadsData == JsonPost /\ HasField("data") /\ ~WantsSampleData

\* the uploaded value is a rectangular list of rows of numbers
IsMatrix(d) ==
    /\ d.pytype = "list" /\ d.ndim = 2
    /\ \A i \in 1..Len(d.rows) : Len(d.rows[i]) = Len(d.rows[1])
RowsOf(d) == Len(d.rows)
ColsOf(d) == IF Len(d.rows) = 0 THEN 0 ELSE Len(d.rows[1])
\* column j holds one value only
ConstantColumn(d, j) == \A i \in 1..RowsOf(d) : d.rows[i][j] = d.rows[1][j]
\* the data meets every documented requirement: 2-D, 2 samples, 1 feature, no
\* constant column
PassesValidation(d) ==
    /\ IsMatrix(d) /\ RowsOf(d) >= 2 /\ ColsOf(d) >= 1
    /\ \A j \in 1..ColsOf(d) : ~ConstantColumn(d, j)
\* the data breaks one of the documented requirements
FailsDataValidation(d) ==
    \/ d.pytype # "str" /\ d.ndim # 2
    \/ IsMatrix(d) /\ (RowsOf(d) < 2 \/ ColsOf(d) < 1
                       \/ \E j \in 1..ColsOf(d) : ConstantColumn(d, j))

LocalDone == local_resp # NoResponse
CloudDone == cloud_resp # NoResponse

\* n_components as each front end reads it
LocalNComponents == IF HasField("n_components") THEN req.body["n_components"] ELSE 2
CloudNComponents == IF HasField("n_components") THEN req.body["n_components"] ELSE 5

TooManyComponents(n, d) == n > (IF RowsOf(d) < ColsOf(d) THEN RowsOf(d) ELSE ColsOf(d))

\* C1: every validation failure of an uploaded data set (bad data, or too many
\* components for good data) is answered with an error body that has the
\* troubleshooting section, by either front end.
C1_ValidationFailuresCarryTroubleshooting ==
    (UploadsData /\ ~NamesGcsObject
     /\ (\/ FailsDataValidation(req.body["data"])
         \/ PassesValidation(req.body["data"]) /\ HasField("n_components")
            /\ TooManyComponents(req.body["n_components"], req.body["data"])))
    => /\ LocalDone => "troubleshooting" \in DOMAIN local_resp.body
       /\ CloudDone => "troubleshooting" \in DOMAIN cloud_resp.body

\* C2: the local server answers an upload that is not 2-dimensional with 400.
C2_NonTwoDimensionalDataIs400 ==
    (UploadsData /\ LocalDone
     /\ req.body["data"].pytype # "str" /\ req.body["data"].ndim # 2)
    => local_resp.code = 400

\* the coffee shop request of C3, with the local server's defaults
CoffeeHours == IF HasField("hours") THEN req.body["hours"] ELSE 24
CoffeeSensors ==
    IF HasField("sensor_types") THEN Len(req.body["sensor_types"]) ELSE Len(DefaultSensorTypes)
GoodCoffeeRequest ==
    /\ JsonPost /\ WantsSampleData /\ WantsCoffeeShop
    /\ CoffeeHours >= 1 /\ CoffeeSensors >= 1
    /\ 1 <= LocalNComponents
    /\ LocalNComponents <= (IF 4 * CoffeeHours < CoffeeSensors
                            THEN 4 * CoffeeHours ELSE CoffeeSensors)

\* C3: the local server answers a well-formed coffee shop sample request with
\* 200 and a body that has the analysis dimensions and the business insights.
C3_CoffeeShopSampleIs200 ==
    (GoodCoffeeRequest /\ LocalDone)
    => /\ local_resp.code = 200
       /\ "analysis" \in DOMAIN local_resp.body
       /\ "business_insights" \in DOMAIN local_resp.body

\* what C4 asks of a response
TooManyComponentsAnswer(resp) ==
    /\ resp.code = 400
    /\ resp.body.status = "error"
    /\ resp.body.error.type = "ValueError"
    /\ "troubleshooting" \in DOMAIN resp.body
    /\ "analysis" \notin DOMAIN resp.body

\* C4: valid uploaded data with n_components above min(n_samples, n_features)
\* is answered with 400, status error, error type ValueError, a troubleshooting
\* section and no analysis.
C4_TooManyComponentsIs400 ==
    (UploadsData /\ PassesValidation(req.body["data"]))
    => /\ (LocalDone /\ TooManyComponents(LocalNComponents, req.body["data"]))
              => TooManyComponentsAnswer(local_resp)
       /\ (CloudDone /\ ~NamesGcsObject
           /\ TooManyComponents(CloudNComponents, req.body["data"]))
              => TooManyComponentsAnswer(cloud_resp)

C4_Witness ==
    /\ UploadsData /\ PassesValidation(req.body["data"]) /\ ~NamesGcsObject
    /\ LocalDone /\ TooManyComponents(LocalNComponents, req.body["data"])
    /\ CloudDone /\ TooManyComponents(CloudNComponents, req.body["data"])
    /\ local_resp.code = 400 /\ cloud_resp.code = 400

\* neither a data field nor a truthy use_sample_data
NoDataNoSample == JsonPost /\ ~HasField("data") /\ ~WantsSampleData

Refused(resp) == resp.code = 400 /\ resp.pca_calls = 0

C6_InvalidJsonIs400 ==
    (req.method = "POST" /\ ~req.ctype_json /\ req.payload = "invalid")
    => /\ LocalDone => local_resp.code = 400
       /\ CloudDone => cloud_resp.code = 400

\* both front ends answered, with the same status and, on success, dimensions
SameAnswer ==
    /\ local_resp.code = cloud_resp.code
    /\ local_resp.code = 200
       => /\ local_resp.body.analysis.input_dimensions
             = cloud_resp.body.analysis.input_dimensions
          /\ local_resp.body.analysis.output_dimensions
             = cloud_resp.body.analysis.output_dimensions

UsesDataOrSample == JsonPost /\ ~NamesGcsObject /\ (HasField("data") \/ WantsSampleData)
                    /\ ~HasField("gcs_bucket") /\ ~HasField("gcs_file_path")

\* C7: on any JSON body with data or use_sample_data and no GCS fields the two
\* front ends give the same status and, on success, the same dimensions.
C7_CloudMirrorsLocal ==
    (UsesDataOrSample /\ LocalDone /\ CloudDone) => SameAnswer

----------------------------------------------------------------------------
(* Properties of the shared functions *)

ProcessCalled == call.fn = "process_pca_request"

\* the precondition C8 gives for success, read off the arguments
MeetsPcaPreconditions ==
    LET d == call.data
        n == call.n_components
    IN /\ PassesValidation(d)
       /\ 1 <= n /\ n <= RowsOf(d) /\ n <= ColsOf(d)

\* neither the data nor n_components is text
NumericInput == call.data.pytype # "str" /\ call.n_components # text_components

\* the library call fails on data that is not finite
LibraryCallFails == HasNan(call.data) \/ HasInf(call.data)

\* success goes with the preconditions, and every failure is a ValueError
SuccessIffPreconditions ==
    /\ result.status = "success" => MeetsPcaPreconditions
    /\ (MeetsPcaPreconditions /\ ~LibraryCallFails) => result.status = "success"
    /\ result.status # "success"
       => result.status = "error" /\ result.error_type = "ValueError"

\* C8: process_pca_request succeeds exactly on 2-D data with at least 2
\* samples, at least 1 feature, 1 <= n_components <= min(n_samples, n_features)
\* and no constant column; everything else is an error of type ValueError.
C8_SuccessIffPreconditions ==
    (ProcessCalled /\ NumericInput) => SuccessIffPreconditions

\* C8 amended: the same for input whose numbers float64 can hold; an integer
\* beyond its range is answered with an error of type OverflowError.
C8_SuccessIffPreconditionsInRange ==
    (ProcessCalled /\ NumericInput)
    => IF huge_int \in CellsOf(call.data)
       THEN result.status = "error" /\ result.error_type = "OverflowError"
       ELSE SuccessIffPreconditions

C8_Witness ==
    /\ ProcessCalled /\ MeetsPcaPreconditions /\ result.status = "success"
    /\ call.n_components = 2

\* C9: a success result has the shapes of its arguments, and the dimensional
\* checks of validate_pca_results pass on it.
C9_SuccessResultIsConsistent ==
    (ProcessCalled /\ result.status = "success")
    => LET n_samples == RowsOf(call.data)
           n_features == ColsOf(call.data)
           k == call.n_components
       IN /\ result.input_shape = <<n_samples, n_features>>
          /\ result.output_shape = <<n_samples, k>>
          /\ Len(result.explained_variance_ratio) = k
          /\ Len(result.principal_components) = k
          /\ \A i \in 1..k : Len(result.principal_components[i]) = n_features
          /\ result.metadata.n_components_requested = k
          /\ checked \in {"not run", "True"}

C9_Witness ==
    /\ ProcessCalled /\ result.status = "success" /\ checked = "True"
    /\ RowsOf(call.data) # ColsOf(call.data)

\* C10: generate_sample_data returns the same data whenever it is called with
\* the same arguments, random_state included.
C10_GenerateSampleDataIsReproducible ==
    (call.fn = "generate_sample_data" /\ result.status = "none" /\ gen_log # <<>>
     /\ gen_log[1].args = call.args)
    => result.data = gen_log[1].data

----------------------------------------------------------------------------
(* format_response called on the results of process_pca_request *)

FormatData ==
    {ListOfRows(m) : m \in ColumnMatrices(MaxFormatSamples, MaxReqFeatures)} \cup OddData

Platforms == {"local-flask", "gcp-cloud-functions"}

FormatContexts == {EmptyDict} \cup {[cost_per_sensor |-> c] : c \in SensorCosts}

CallFormatResponse ==
    /\ call = NoCall
    /\ \E data \in FormatData, n_components \in 0..MaxComponents,
          include_raw_data \in BOOLEAN, platform \in Platforms,
          business_context \in FormatContexts :
        LET pca_results == process_pca_request(data, n_components, TRUE)
            formatted == format_response(pca_results, platform, include_raw_data,
                                         business_context)
        IN /\ call' = [fn |-> "format_response", pca_results |-> pca_results,
                       platform |-> platform, include_raw_data |-> include_raw_data,
                       business_context |-> business_context]
           /\ result' = [status |-> formatted.raised, response |-> formatted.body]
           /\ UNCHANGED <<req, local_resp, cloud_resp, flask_mode, rng, checked, gen_log>>

NextFormat == CallFormatResponse \/ ReturnToCaller

SpecFormat == InitCore /\ [][NextFormat]_vars

----------------------------------------------------------------------------
(* Properties of the local handler's responses *)

LocalPostDone == req.method = "POST" /\ LocalDone

\* the body format_response builds for a success result
FormattedSuccess(body) ==
    /\ "status" \in DOMAIN body /\ body.status = "success"
    /\ "analysis" \in DOMAIN body

\* C11: every POST /pca of the local server is answered with 200, 400 or 500;
\* 200 goes exactly with a PCA that ran and a formatted success body, and every
\* 400 or 500 body has status "error".
C11_LocalPostAnswers ==
    LocalPostDone
    => /\ local_resp.code \in {200, 400, 500}
       /\ "status" \in DOMAIN local_resp.body
       /\ local_resp.code = 200
          <=> (local_resp.pca_calls = 1 /\ FormattedSuccess(local_resp.body))
       /\ local_resp.code # 200 => local_resp.body.status = "error"

\* a PCA that succeeded and a response that could not be formatted
C11_Witness ==
    /\ LocalPostDone /\ local_resp.code = 500 /\ local_resp.pca_calls = 1
    /\ local_resp.body.error.type = "ZeroDivisionError"

----------------------------------------------------------------------------
(* Properties of the formatted response *)

\* an upload answered with a success body, by the local server
LocalUploadOk == UploadsData /\ LocalDone /\ local_resp.code = 200

\* the cost per sensor of the uploaded business context (0 when there is none)
UploadedCost ==
    LET context == Get(req.body, "business_context", EmptyDict)
    IN Get(context, "cost_per_sensor", 0)

IsWholeDollars(x) == \E n \in 0..x : x = Dollars(n)

\* the recommendation on cost savings is among the recommendations
RecommendsSavings(insights) ==
    \E i \in 1..Len(insights.recommendations) :
        insights.recommendations[i] = "Potential cost savings"

\* the cost impact figures are those of n_features and n_components sensors at
\* cost c, and the savings recommendation goes with a positive saving
CostImpactIsExact(body, c) ==
    LET n_features == body.analysis.input_dimensions[2]
        n_components == body.analysis.output_dimensions[2]
        impact == body.business_insights.cost_impact
        current == Dollars(impact.current_annual_cost)
        optimized == Dollars(impact.optimized_annual_cost)
        savings == Dollars(impact.potential_annual_savings)
    IN /\ current = n_features * c
       /\ optimized = n_components * c
       /\ savings = current - optimized
       /\ savings >= 0
       /\ RecommendsSavings(body.business_insights) <=> savings > 0
       /\ savings > 0 <=> n_components < n_features

\* C12 as stated: with cost_per_sensor = c > 0 the cost impact reports
\* current = n_features * c, optimized = n_components * c and savings =
\* current - optimized, and recommends the saving exactly when it is positive.
C12_CostImpactIsExact ==
    (LocalUploadOk /\ UploadedCost > 0) => CostImpactIsExact(local_resp.body, UploadedCost)

\* C12 amended: the same for a cost per sensor in whole dollars; the figures
\* are printed in whole dollars.
C12_CostImpactIsExactInWholeDollars ==
    (LocalUploadOk /\ UploadedCost > 0 /\ IsWholeDollars(UploadedCost))
    => CostImpactIsExact(local_resp.body, UploadedCost)

C12_Witness ==
    /\ LocalUploadOk /\ UploadedCost = Dollars(250)
    /\ RecommendsSavings(local_resp.body.business_insights)
    /\ local_resp.body.business_insights.cost_impact.potential_annual_savings = 250

\* format_response has returned a response
Formatted == call.fn = "format_response" /\ result.status = "none"

HasKey(d, key) == key \in DOMAIN d

\* C13: a success response holds exactly one of analysis.transformed_data and
\* analysis.sample_transformed_data: all rows with include_raw_data or with at
\* most 5 rows, otherwise the first 5 rows and the full row count.
C13_TransformedDataOrSample ==
    (Formatted /\ result.response.status = "success")
    => LET analysis == result.response.analysis
           rows == call.pca_results.transformed_data
       IN /\ HasKey(analysis, "transformed_data") # HasKey(analysis, "sample_transformed_data")
          /\ IF call.include_raw_data \/ Len(rows) <= 5
             THEN /\ HasKey(analysis, "transformed_data")
                  /\ analysis.transformed_data = rows
             ELSE /\ HasKey(analysis, "sample_transformed_data")
                  /\ analysis.sample_transformed_data.first_5_samples
                        = [i \in 1..5 |-> rows[i]]
                  /\ analysis.sample_transformed_data.total_samples = Len(rows)

\* six rows formatted without the raw data
C13_Witness ==
    /\ Formatted /\ result.response.status = "success" /\ ~call.include_raw_data
    /\ Len(call.pca_results.transformed_data) = 6
    /\ HasKey(result.response.analysis, "sample_transformed_data")

\* C14: every response of format_response has timestamp, platform, service,
\* version and status; a success response has analysis, performance and
\* business_insights and neither error nor troubleshooting; an error response
\* has error (type, message, input_info, timestamp), performance and
\* troubleshooting and neither analysis nor business_insights.
C14_ResponseShape ==
    Formatted
    => LET response == result.response
       IN /\ {"timestamp", "platform", "service", "version", "status"} \subseteq DOMAIN response
          /\ response.service = "serverless-pca" /\ response.version = "1.0.0"
          /\ response.platform = call.platform
          /\ response.status = call.pca_results.status
          /\ response.status = "success"
             => /\ {"analysis", "performance", "business_insights"} \subseteq DOMAIN response
                /\ DOMAIN response \cap {"error", "troubleshooting"} = {}
          /\ response.status # "success"
             => /\ response.status = "error"
                /\ {"error", "performance", "troubleshooting"} \subseteq DOMAIN response
                /\ DOMAIN response.error = {"type", "message", "input_info", "timestamp"}
                /\ DOMAIN response \cap {"analysis", "business_insights"} = {}

\* an error response and its guidance
C14_Witness ==
    /\ Formatted /\ result.response.status = "error"
    /\ result.response.troubleshooting.common_solutions = "reduce n_components"

----------------------------------------------------------------------------
(* Properties of the health check and of the cloud handler's dispatch *)

\* a health check answered: status healthy with 200, unhealthy with 503
HealthAnswer(resp, platform) ==
    /\ resp.code \in {200, 503}
    /\ resp.body.platform = platform
    /\ resp.code = 200 <=> resp.body.status = "healthy"
    /\ resp.code = 503 <=> resp.body.status = "unhealthy"

\* the self-test passed the parameter checks and the analysis ran on it
SelfTestPassed(resp) ==
    /\ resp.code = 200 /\ resp.pca_calls = 1
    /\ resp.body.platform_info.core_functionality = "operational"

\* C15: GET /health answers 200 "healthy" with the platform name when the
\* self-test does not raise and 503 "unhealthy" only when it does; the
\* self-test's parameters pass the checks of generate_sample_data and
\* process_pca_request, so the answer is 200 with the core operational.
C15_HealthCheck ==
    req.method = "GET"
    => /\ LocalDone => HealthAnswer(local_resp, "local-flask") /\ SelfTestPassed(local_resp)
       /\ CloudDone => HealthAnswer(cloud_resp, "gcp-cloud-functions")
                       /\ SelfTestPassed(cloud_resp)

C15_Witness ==
    /\ req.method = "GET" /\ LocalDone /\ CloudDone
    /\ local_resp.body.status = "healthy" /\ cloud_resp.body.status = "healthy"

\* the headers of every response but the preflight one
JsonCorsHeaders(headers) ==
    /\ {"Access_Control_Allow_Origin", "Content_Type"} \subseteq DOMAIN headers
    /\ headers.Access_Control_Allow_Origin = "*"
    /\ headers.Content_Type = "application/json"

\* C16: the cloud handler answers OPTIONS with 204, an empty body and the
\* preflight headers, running no analysis; GET with the health check; POST with
\* the analysis; any other method with 405 and status "error"; and every
\* answer but the OPTIONS one has Access-Control-Allow-Origin * and
\* Content-Type application/json.
C16_CloudDispatch ==
    CloudDone
    => /\ req.method = "OPTIONS"
          => /\ cloud_resp.code = 204 /\ cloud_resp.body = EmptyDict
             /\ cloud_resp.headers = CorsPreflightHeaders
             /\ cloud_resp.pca_calls = 0
       /\ req.method # "OPTIONS" => JsonCorsHeaders(cloud_resp.headers)
       /\ req.method = "GET" => HealthAnswer(cloud_resp, "gcp-cloud-functions")
       /\ req.method = "POST"
          => /\ cloud_resp.code \in {200, 400, 500}
             /\ cloud_resp.body.status \in {"success", "error"}
             /\ cloud_resp.code = 200
                <=> (cloud_resp.pca_calls = 1 /\ FormattedSuccess(cloud_resp.body))
       /\ req.method \notin {"OPTIONS", "GET", "POST"}
          => /\ cloud_resp.code = 405 /\ cloud_resp.body.status = "error"
             /\ cloud_resp.pca_calls = 0

\* a method the handler does not serve
C16_Witness ==
    /\ CloudDone /\ req.method = "PUT" /\ cloud_resp.code = 405

----------------------------------------------------------------------------
(* No retry and no fallback *)

\* the shapes of the data sets load_dataset_from_gcs can return
StoredShapes == {Shape(g.data) : g \in {o \in GcsOutcomes : o.raised = "none"}}

\* the answer to a failed load from Cloud Storage
GcsLoadErrorAnswer(resp) ==
    /\ resp.code = 400 /\ resp.pca_calls = 0
    /\ resp.body.error.type = "GCSLoadError"

\* the answer to an exception raised before the analysis
FailedBeforePca(resp, types) ==
    /\ resp.code = 500 /\ resp.pca_calls = 0
    /\ resp.body.error.type \in types

\* sample data asked for with a number of samples generate_sample_data refuses
SampleCannotBeGenerated ==
    /\ JsonPost /\ WantsSampleData /\ ~WantsCoffeeShop /\ ~NamesGcsObject
    /\ HasField("n_samples") /\ req.body["n_samples"] < 2

\* one POST: at most one analysis, and the answer is that of the first step
\* that failed, on the first data source the handler chose
OneAttempt(resp) ==
    /\ resp.pca_calls \in {0, 1}
    /\ SampleCannotBeGenerated => FailedBeforePca(resp, {"ValueError"})
    /\ (UploadsData /\ ~NamesGcsObject /\ FailsDataValidation(req.body["data"]))
       => FailedBeforePca(resp, {"ValueError", "TypeError"})
    /\ (resp.code = 400 /\ resp.pca_calls = 1)
       => /\ "troubleshooting" \in DOMAIN resp.body
          /\ resp.body.error.type = "ValueError"
    /\ (resp.code = 500 /\ resp.pca_calls = 1)
       => resp.body.error.type = "ZeroDivisionError"

----------------------------------------------------------------------------
(* Requests handled one after another by the same process *)

\* what a process that has handled nothing before answers to the request
FreshLocalAnswer == pca_analysis(req, flask_mode, 0)

\* C18: the answer to a POST /pca (status code, dimensions, and the data of a
\* sample-data request) depends on the request only: it is the answer of a
\* process that has handled no other request before.
C18_AnswerDependsOnRequestOnly ==
    LocalPostDone
    => /\ local_resp.code = FreshLocalAnswer.code
       /\ local_resp.body = FreshLocalAnswer.body

----------------------------------------------------------------------------
(* validate_input_data called on its own *)

\* the text json.dumps makes of a list or a number
json_dumps(d) == [d EXCEPT !.pytype = "str"]

\* lists, numbers, JSON text of them, and text that is not JSON
ValidateData == CoreData \cup {json_dumps(d) : d \in CoreData \ {d \in CoreData : d.pytype = "str"}}

CallValidateInputData ==
    /\ call = NoCall
    /\ \E data \in ValidateData :
        LET validated == validate_input_data(data)
        IN /\ call' = [fn |-> "validate_input_data", data |-> data]
           /\ result' = [status |-> IF validated.raised = "none" THEN "returned"
                                    ELSE "raised",
                         error_type |-> validated.raised,
                         error_message |-> validated.msg,
                         value |-> validated.value]
           /\ UNCHANGED <<req, local_resp, cloud_resp, flask_mode, rng, checked, gen_log>>

NextValidate == CallValidateInputData \/ ReturnToCaller

SpecValidate == InitCore /\ [][NextValidate]_vars

ValidateCalled == call.fn = "validate_input_data"

\* text that json.loads refuses
NotJson(d) == d.pytype = "str" /\ d.ndim = -1
\* the input after parsing a JSON string
Parsed(d) == IF d.pytype = "str" THEN json_loads(d).value ELSE d
\* every item is a number float64 can take, in rows of one length
ConvertsToNumbers(d) == Rectangular(d) /\ huge_int \notin CellsOf(d)

Raised(etype, msg) ==
    /\ result.status = "raised"
    /\ result.error_type = etype
    /\ result.error_message = msg

\* the array of the same numbers
ReturnedArrayOf(d) ==
    /\ result.status = "returned"
    /\ result.value.pytype = "ndarray"
    /\ result.value.rows = d.rows

\* the checks in their order, each with the exception it ends in
AnswerInCheckOrder(d) ==
    IF NotJson(d) THEN Raised("ValueError", "Invalid JSON string")
    ELSE LET p == Parsed(d)
         IN IF ~ConvertsToNumbers(p)
            THEN Raised("TypeError", "Cannot convert data to numeric array")
            ELSE IF p.ndim = 0 THEN Raised("ValueError", "Data cannot be a scalar value")
            ELSE IF p.ndim = 1 THEN Raised("ValueError", "Data must be 2-dimensional")
            ELSE IF p.ndim > 2
            THEN Raised("ValueError", "Data must be 2-dimensional, got more")
            ELSE IF RowsOf(p) < 2 THEN Raised("ValueError", "Need at least 2 samples")
            ELSE IF ColsOf(p) < 1 THEN Raised("ValueError", "Need at least 1 feature")
            ELSE IF np_nan \in CellsOf(p)
            THEN Raised("ValueError", "Data contains NaN values")
            ELSE IF np_inf \in CellsOf(p)
            THEN Raised("ValueError", "Data contains infinite values")
            ELSE IF \E j \in 1..ColsOf(p) : ConstantColumn(p, j)
            THEN Raised("ValueError", "zero variance")
            ELSE ReturnedArrayOf(p)

\* C19: validate_input_data returns the float array exactly when the input
\* (after parsing a JSON string) converts to numbers and is 2-dimensional with
\* at least 2 rows, at least 1 column, no NaN, no infinity and no zero-variance
\* column; the checks are applied in that order; TypeError is raised only when
\* the numeric conversion fails and ValueError for every other rejection, text
\* that is not JSON included; equal (fully correlated) columns are accepted.
C19_ValidateInputData ==
    ValidateCalled
    => /\ AnswerInCheckOrder(call.data)
       /\ result.status = "raised" => result.error_type \in {"TypeError", "ValueError"}

----------------------------------------------------------------------------
(* process_pca_request never raises *)

\* the keys of a result
ResultKeys == DOMAIN result

\* C20: process_pca_request returns a result of status "success" or "error"
\* for any data, n_components and scale_features; an error result carries
\* error_type, error_message, input_info with n_components_requested and
\* scale_features as passed, and performance.execution_time_ms, and carries no
\* transformed_data.
C20_ErrorResultShape ==
    ProcessCalled
    => /\ result.status \in {"success", "error"}
       /\ result.status = "error"
          => /\ {"error_type", "error_message", "input_info", "performance"}
                  \subseteq ResultKeys
             /\ result.error_type # "none"
             /\ result.input_info.n_components_requested = call.n_components
             /\ result.input_info.scale_features = call.scale_features
             /\ "execution_time_ms" \in DOMAIN result.performance
             /\ "transformed_data" \notin ResultKeys

\* an error that is no ValueError, answered as an error result that repeats
\* the n_components it was given
C20_Witness ==
    /\ ProcessCalled /\ result.status = "error"
    /\ result.error_type = "TypeError"
    /\ call.n_components = text_components
    /\ result.input_info.n_components_requested = text_components

----------------------------------------------------------------------------
(* The order of the validation rules of process_pca_request *)

\* np.array takes the data and n_components is a number
ConvertedInput ==
    /\ call.data.pytype # "str" /\ Rectangular(call.data)
    /\ huge_int \notin CellsOf(call.data)
    /\ call.n_components # text_components

\* a column of equal finite numbers
ZeroVarianceColumn(d, j) ==
    /\ ConstantColumn(d, j)
    /\ \A i \in 1..RowsOf(d) : d.rows[i][j] \in Cells

\* the rules the input breaks, numbered in the order of the checks
ViolatedRules ==
    LET d == call.data
        n == call.n_components
        two_d == d.ndim = 2
    IN {r \in 1..6 :
          \/ r = 1 /\ ~two_d
          \/ r = 2 /\ two_d /\ RowsOf(d) < 2
          \/ r = 3 /\ two_d /\ ColsOf(d) < 1
          \/ r = 4 /\ two_d /\ n > Min(RowsOf(d), ColsOf(d))
          \/ r = 5 /\ n < 1
          \/ r = 6 /\ two_d /\ \E j \in 1..ColsOf(d) : ZeroVarianceColumn(d, j)}

\* the message each rule is reported with
RuleMessage(r) ==
    CASE r = 1 -> "Data must be 2-dimensional"
      [] r = 2 -> "Need at least 2 samples"
      [] r = 3 -> "Need at least 1 feature"
      [] r = 4 -> "n_components cannot exceed"
      [] r = 5 -> "n_components must be at least 1"
      [] r = 6 -> "zero variance"

FirstViolatedRule == CHOOSE r \in ViolatedRules : \A q \in ViolatedRules : r <= q

\* C21: when the input breaks several validation rules at once, the error
\* reported is that of the first broken rule in the order: not 2-dimensional,
\* fewer than 2 samples, fewer than 1 feature, n_components above
\* min(n_samples, n_features), n_components below 1, zero-variance column.
C21_FirstViolatedRuleIsReported ==
    (ProcessCalled /\ ConvertedInput /\ ViolatedRules # {})
    => /\ result.status = "error"
       /\ result.error_type = "ValueError"
       /\ result.error_message = RuleMessage(FirstViolatedRule)

\* a constant column together with an n_components that is too large
C21_Witness ==
    /\ ProcessCalled /\ ConvertedInput
    /\ {4, 6} \subseteq ViolatedRules /\ FirstViolatedRule = 4
    /\ result.error_message = "n_components cannot exceed"

----------------------------------------------------------------------------
(* Validation followed by the analysis, as the handlers do it *)

ValidateAndProcess ==
    /\ call = NoCall
    /\ \E data \in ValidateData, n_components \in ComponentCounts,
          scale_features \in BOOLEAN :
        LET validated == validate_input_data(data)
        IN /\ call' = [fn |-> "validate_and_process", data |-> data,
                       n_components |-> n_components,
                       scale_features |-> scale_features,
                       validated |-> validated.raised = "none",
                       shape |-> IF validated.raised = "none"
                                 THEN Shape(validated.value) ELSE <<>>]
           /\ result' = IF validated.raised # "none"
                        THEN [status |-> "raised", error_type |-> validated.raised,
                              error_message |-> validated.msg]
                        ELSE process_pca_request(validated.value, n_components,
                                                 scale_features)
           /\ UNCHANGED <<req, local_resp, cloud_resp, flask_mode, rng, checked, gen_log>>

NextPipeline == ValidateAndProcess \/ ReturnToCaller

SpecPipeline == InitCore /\ [][NextPipeline]_vars

\* the analysis ran on an array that validate_input_data returned
ProcessedValidated == call.fn = "validate_and_process" /\ call.validated

\* the error is one of n_components: too large, too small, or no number
ErrorOfComponents ==
    LET n == call.n_components
        max == Min(call.shape[1], call.shape[2])
    IN /\ result.status = "error"
       /\ \/ /\ n = text_components
             /\ result.error_type = "TypeError"
          \/ /\ n # text_components /\ n > max
             /\ result.error_message = "n_components cannot exceed"
          \/ /\ n # text_components /\ n <= max /\ n < 1
             /\ result.error_message = "n_components must be at least 1"

\* C22: on an array returned by validate_input_data, process_pca_request
\* answers with status "error" only because of n_components (above
\* min(n_samples, n_features), below 1, or no number), never because of the
\* dimensions, the number of samples or features, or a zero-variance column.
C22_ValidationSubsumesDataChecks ==
    ProcessedValidated
    => /\ result.status \in {"success", "error"}
       /\ result.status = "error" => ErrorOfComponents
       /\ result.status = "error"
          => result.error_message \notin
               {"Data must be 2-dimensional", "Need at least 2 samples",
                "Need at least 1 feature", "zero variance"}

\* validated data refused for an n_components above the number of columns
C22_Witness ==
    /\ ProcessedValidated /\ result.status = "error"
    /\ call.n_components = 3 /\ call.shape = <<3, 2>>
    /\ result.error_message = "n_components cannot exceed"

----------------------------------------------------------------------------
(* The parameters of generate_sample_data *)

GenerateCalled == call.fn = "generate_sample_data"

\* the redundant and informative counts the array was generated with
RedundantUsed == result.data.gen[3]
InformativeUsed == result.data.gen[4]

\* C23: generate_sample_data rejects n_samples < 2 and n_features < 1 with a
\* ValueError of its own, generating nothing; otherwise, when n_redundant +
\* n_informative > n_features, it goes on with n_informative >= 1,
\* n_redundant >= 0 and n_informative + n_redundant = n_features; the array it
\* returns has n_samples rows and n_features columns.
C23_GenerateSampleDataParameters ==
    GenerateCalled
    => LET a == call.args
       IN /\ a.n_samples < 2
             => /\ result.status = "ValueError"
                /\ result.error_message = "Need at least 2 samples"
                /\ ~IsGenerated(result.data)
          /\ (a.n_samples >= 2 /\ a.n_features < 1)
             => /\ result.status = "ValueError"
                /\ result.error_message = "Need at least 1 feature"
                /\ ~IsGenerated(result.data)
          /\ (a.n_samples >= 2 /\ a.n_features >= 1
              /\ a.n_redundant + a.n_informative > a.n_features)
             => /\ result.status = "none"
                /\ InformativeUsed >= 1 /\ RedundantUsed >= 0
                /\ InformativeUsed + RedundantUsed = a.n_features
          /\ result.status = "none"
             => Shape(result.data) = <<a.n_samples, a.n_features>>

\* three informative features asked of two: both columns become informative
C23_Witness ==
    /\ GenerateCalled /\ result.status = "none"
    /\ call.args.n_features = 2 /\ call.args.n_informative = 3
    /\ call.args.n_redundant = 0
    /\ InformativeUsed = 2 /\ RedundantUsed = 0

----------------------------------------------------------------------------
(* The coffee shop sample *)

CoffeeCalled == call.fn = "create_coffee_shop_sample"

\* len(sensor_types), with the 20 default sensors when the list is left out
SensorCount ==
    IF call.sensor_types = NoSensorTypes THEN Len(DefaultSensorTypes)
    ELSE Len(call.sensor_types)

\* C24: create_coffee_shop_sample returns data of 4 * hours rows and
\* len(sensor_types) columns, 20 when sensor_types is left out; for at least
\* one sensor the n_redundant = min(2, n // 2) and n_informative =
\* max(1, n - n // 2) it passes on sum to at most n and are the ones the
\* generator uses, unadjusted; with hours < 1 it raises ValueError.
C24_CoffeeShopSampleShape ==
    CoffeeCalled
    => LET n == SensorCount
           red == IF n \div 2 < 2 THEN n \div 2 ELSE 2
           inf == IF n - n \div 2 > 1 THEN n - n \div 2 ELSE 1
       IN /\ Len(DefaultSensorTypes) = 20
          /\ call.hours < 1 => result.status = "ValueError"
          /\ (call.hours >= 1 /\ n >= 1)
             => /\ result.status = "none"
                /\ Shape(result.data) = <<4 * call.hours, n>>
                /\ red + inf <= n
                /\ result.data.gen[3] = red
                /\ result.data.gen[4] = inf

\* one hour of three sensors: 4 rows, 1 redundant and 2 informative columns
C24_Witness ==
    /\ CoffeeCalled /\ result.status = "none"
    /\ call.hours = 1 /\ SensorCount = 3
    /\ Shape(result.data) = <<4, 3>>
    /\ result.data.gen[3] = 1 /\ result.data.gen[4] = 2

----------------------------------------------------------------------------
(* _generate_business_insights called on results with known variance ratios *)

\* the most variance ratios a result carries
MaxRatios == 2

\* ratios in per cent, on both sides of every threshold
RatioValues == {0, 10, 20, 21, 30, 40, 41, 50, 60, 61, 75, 89, 90, 100}

\* what PCA reports: ratios in descending order that sum to at most 1
RatioLists ==
    {rs \in UNION {[1..k -> RatioValues] : k \in 1..MaxRatios} :
        /\ \A i \in 1..(Len(rs) - 1) : rs[i] >= rs[i + 1]
        /\ SumTo(rs, Len(rs)) <= 100}

\* the fields of a success result that the insights read
InsightResults ==
    {[input_shape |-> <<2, f>>, output_shape |-> <<2, Len(rs)>>,
      explained_variance_ratio |-> rs,
      total_variance_explained |-> SumTo(rs, Len(rs))] :
        rs \in RatioLists, f \in 1..MaxRatios + 1}

CallGenerateBusinessInsights ==
    /\ call = NoCall
    /\ \E pca_results \in {r \in InsightResults :
                              r.output_shape[2] <= r.input_shape[2]},
          context \in FormatContexts :
        LET insights == _generate_business_insights(pca_results, context)
        IN /\ call' = [fn |-> "_generate_business_insights",
                       pca_results |-> pca_results, context |-> context]
           /\ result' = [status |-> insights.raised, insights |-> insights.value]
           /\ UNCHANGED <<req, local_resp, cloud_resp, flask_mode, rng, checked, gen_log>>

NextInsights == CallGenerateBusinessInsights \/ ReturnToCaller

SpecInsights == InitCore /\ [][NextInsights]_vars

InsightsCalled == call.fn = "_generate_business_insights"

\* the texts of a sequence
Texts(seq) == {seq[i] : i \in 1..Len(seq)}

\* the tier of a total variance explained
Tier(total_variance) ==
    IF total_variance >= 90 THEN "excellent"
    ELSE IF total_variance >= 75 THEN "good"
    ELSE IF total_variance >= 60 THEN "moderate"
    ELSE "limited"

FindingOfTier(tier) ==
    CASE tier = "excellent" -> "Excellent dimensionality reduction"
      [] tier = "good" -> "Good dimensionality reduction"
      [] tier = "moderate" -> "Moderate dimensionality reduction"
      [] tier = "limited" -> "Limited dimensionality reduction"

RecommendationOfTier(tier) ==
    CASE tier = "excellent" -> "Strong candidate for sensor optimization"
      [] tier = "good" -> "Moderate sensor optimization opportunity"
      [] tier = "moderate" -> "Limited sensor optimization"
      [] tier = "limited" -> "minimal optimization opportunity"

\* C25: _generate_business_insights always returns 1 to 3 key_findings and at
\* least 1 recommendation: the first finding and the first recommendation are
\* those of the tier of total variance explained (>= 0.9 excellent, >= 0.75
\* good, >= 0.6 moderate, otherwise limited); a finding on the first component
\* is added only when its ratio exceeds 0.4 (dominant above 0.6), one on the
\* second component only when its ratio exceeds 0.2; the cost_impact key is
\* always there.
C25_BusinessInsights ==
    InsightsCalled
    => /\ result.status = "none"
       /\ LET insights == result.insights
              ratios == call.pca_results.explained_variance_ratio
              tier == Tier(call.pca_results.total_variance_explained)
              findings == insights.key_findings
              first == ratios[1] > 40
              second == Len(ratios) >= 2 /\ ratios[2] > 20
          IN /\ Len(findings) \in 1..3
             /\ Len(insights.recommendations) >= 1
             /\ findings[1] = FindingOfTier(tier)
             /\ insights.recommendations[1] = RecommendationOfTier(tier)
             /\ "One dominant operational factor" \in Texts(findings)
                <=> ratios[1] > 60
             /\ "Primary operational factor" \in Texts(findings)
                <=> (first /\ ratios[1] <= 60)
             /\ "Secondary factor" \in Texts(findings) <=> second
             /\ Len(findings) = 1 + (IF first THEN 1 ELSE 0) + (IF second THEN 1 ELSE 0)
             /\ "cost_impact" \in DOMAIN insights

====
